---- MODULE Spec2Model ----
(***************************************************************************)
(* Model of the submission form (SubmissionForm.handleSubmit) and of the   *)
(* Supabase client wrapper (getCurrentUser, uploadFile, createSubmission,  *)
(* createSupabaseClient).                                                  *)
(*                                                                         *)
(* Strings that the code concatenates are sequences of string pieces, JS   *)
(* objects are records, JS null / undefined are the records Null and       *)
(* Undefined.  Every invocation of handleSubmit keeps a log of what it     *)
(* did (wrapper calls, platform calls, toasts, navigations, setState).     *)
(***************************************************************************)
EXTENDS Integers, Sequences, FiniteSets, Bags, TLC

\* ---------------------------------------------------------------- bounds
MaxSubmits == 2
TicksPerDay == 2
MaxApiCalls == 1
MaxUrlLen == 3
MaxClientCalls == 2

\* ---------------------------------------------------------------- values
Null == [null |-> TRUE]
Undefined == [undefined |-> TRUE]

UserIds == {"u1", "u2"}
Messages == {"", "hello"}
FileNames == {"sol.txt"}

\* contents of the localStorage entry 'aceInApril_user'
NoEntry == [kind |-> "absent"]
Corrupt == [kind |-> "corrupt"]
UserJson(u) == [kind |-> "json", id |-> u]
CacheValues == {NoEntry, Corrupt} \cup {UserJson(u) : u \in UserIds}

\* values a caller-supplied onSuccess can have: absent, a function that
\* returns, a function that throws an Error
Err(msg) == [isError |-> TRUE, message |-> msg]
OnSuccessValues ==
  { [kind |-> "absent"], [kind |-> "returns"],
    [kind |-> "throws", thrown |-> Err(<<"callback failed">>)] }

VARIABLES
  user,          \* useAuth().user of the mounted form: Null or [id |-> u]
  cache,         \* localStorage entry read by getCurrentUser
  message,       \* useState message
  file,          \* useState file: Null or a File [name |-> n]
  isSubmitting,  \* useState isSubmitting
  clock,         \* Date.now(), in ticks since the epoch
  started,       \* number of invocations of handleSubmit so far
  inv,           \* the invocations of handleSubmit that are in flight and
                 \* those that ended in the latest step
  table,         \* the 'submissions' table: a bag of rows
  insertedWhile, \* for the rows inserted, the row with what getCurrentUser()
                 \* returned when its insert was issued
  apiCalls,      \* number of direct calls of the exported createSubmission
  apiLog,        \* the call of createSubmission made in the latest step
  envUrl,        \* import.meta.env.VITE_SUPABASE_URL of the variant setup
  client,        \* the variant's supabase client: "none", "real", "stub"
  clientCalls,   \* operations called on the variant's client, with results
  netCalls       \* network calls made through the variant's client

formVars == <<user, cache, message, file, isSubmitting, clock,
              started, inv, table, insertedWhile>>
clientVars == <<envUrl, client, clientCalls, netCalls>>
vars == <<user, cache, message, file, isSubmitting, clock,
          started, inv, table, insertedWhile, apiCalls, apiLog,
          envUrl, client, clientCalls, netCalls>>

\* ------------------------------------------------------- client wrapper

\* supabase.ts getCurrentUser: null when the entry is missing or does not
\* parse, the parsed object otherwise
GetCurrentUser(c) ==
  IF c.kind = "absent" THEN Null
  ELSE IF c.kind = "corrupt" THEN Null
  ELSE [id |-> c.id]

\* storage.getPublicUrl(fileName).data.publicUrl
PublicUrl(fileName) == [href |-> <<"public/submissions/">> \o fileName]

\* uploadFile without its check of the cached user
UploadFileCallUnchecked(fileName, c) == [threw |-> FALSE, request |-> fileName]

\* supabase.ts uploadFile up to the network call: throws without a cached
\* user, otherwise issues storage.upload(fileName, file, {upsert: false})
UploadFileCall(fileName, c) ==
  IF GetCurrentUser(c) = Null
  THEN [threw |-> TRUE, error |-> Err(<<"No user found">>)]
  ELSE [threw |-> FALSE, request |-> fileName]

\* supabase.ts uploadFile after the network call
UploadFileSettle(fileName, resp) ==
  IF resp.error # Null
  THEN [threw |-> TRUE,
        error |-> Err(<<"Failed to upload file: ">> \o resp.error.message)]
  ELSE [threw |-> FALSE,
        value |-> [path |-> fileName, url |-> PublicUrl(fileName)]]

\* the row with the spread last: { user_id: user.id, ...submission }
SubmissionRowKeepsSupplied(submission, cu) ==
  [f \in (DOMAIN submission) \cup {"user_id"} |->
     IF f \in DOMAIN submission THEN submission[f] ELSE cu.id]

\* the row of createSubmission: { ...submission, user_id: user.id }
SubmissionRow(submission, cu) ==
  [f \in (DOMAIN submission) \cup {"user_id"} |->
     IF f = "user_id" THEN cu.id ELSE submission[f]]

\* supabase.ts createSubmission up to the network call
CreateSubmissionCall(submission, c) ==
  IF GetCurrentUser(c) = Null
  THEN [threw |-> TRUE, error |-> Err(<<"No user found">>)]
  ELSE [threw |-> FALSE,
        request |-> SubmissionRow(submission, GetCurrentUser(c))]

\* supabase.ts createSubmission after the network call
CreateSubmissionSettle(resp) ==
  IF resp.error # Null
  THEN [threw |-> TRUE,
        error |-> Err(<<"Submission failed: ">> \o resp.error.message)]
  ELSE [threw |-> FALSE, value |-> resp.data]

\* responses of the platform
UploadResponses(fileName) ==
  {[data |-> [path |-> fileName], error |-> Null],
   [data |-> Null, error |-> [message |-> <<"The resource already exists">>]]}

InsertResponses(row) ==
  {[data |-> row, error |-> Null],
   [data |-> Null, error |-> [message |-> <<"Failed to fetch">>]]}

\* ------------------------------------------------------------- the form

\* the clock at the start, the last tick of a UTC day, and the last tick
\* the model follows, the first tick of the next day
FirstTick == TicksPerDay - 1
LastTick == TicksPerDay

\* new Date().toISOString().split('T')[0]
ISODate(t) == t \div TicksPerDay

\* `${user.id}_${Date.now()}_${file.name}`
FileNameOf(u, t, f) == <<u.id, "_", t, "_", f.name>>

\* a description that ignores the error
DescriptionFallback(e, fallback) == fallback

\* e instanceof Error ? e.message : fallback
Description(e, fallback) == IF e.isError THEN e.message ELSE fallback

Toast(title, description, variant) == <<"toast", title, description, variant>>
Navigate(path) == <<"navigate", path>>
SetIsSubmitting(b) == <<"setIsSubmitting", b>>
End == <<"end">>

\* handleSubmit lines 34-42
NotLoggedIn ==
  << Toast("Not logged in", <<"You must be logged in to submit.">>, "destructive"),
     Navigate("/login"), End >>

\* handleSubmit lines 60-69, then the finally of lines 97-99
UploadCatch(e) ==
  << Toast("File upload failed", Description(e, <<"Failed to upload file">>),
           "destructive"),
     SetIsSubmitting(FALSE), SetIsSubmitting(FALSE), End >>

\* the outer catch without the finally block
OuterCatchNoFinally(e) ==
  << <<"toast", "Submission failed", e.message, "destructive">>, <<"end">> >>

\* handleSubmit lines 90-99
OuterCatch(e) ==
  << Toast("Submission failed",
           Description(e, <<"An unexpected error occurred">>), "destructive"),
     SetIsSubmitting(FALSE), End >>

\* handleSubmit lines 79-89 and 97-99, with onSuccess as the prop cb
SuccessTail(cb) ==
  LET shown == << Toast("Submission successful",
                        <<"Your solution has been submitted successfully.">>,
                        "default") >>
  IN IF cb.kind = "absent"
     THEN shown \o << Navigate("/"), SetIsSubmitting(FALSE), End >>
     ELSE IF cb.kind = "returns"
     THEN shown \o << <<"onSuccess">>, Navigate("/"), SetIsSubmitting(FALSE), End >>
     ELSE shown \o << <<"onSuccess">> >> \o OuterCatch(cb.thrown)

\* handleSubmit lines 73-99: what follows the await of createSubmission,
\* whose outcome is r
AfterInsert(r, cb) ==
  IF r.threw
  THEN << <<"createSubmission.rejected", r.error>> >> \o OuterCatch(r.error)
  ELSE << <<"createSubmission.resolved", r.value>> >> \o SuccessTail(cb)

\* the call of createSubmission with the date taken at the call
InsertStepLateDate(h, fileUrl) ==
  LET submission == [date |-> clock \div TicksPerDay, message |-> h.message,
                     file_url |-> fileUrl]
      called == <<"createSubmission", submission, GetCurrentUser(cache)>>
      r == CreateSubmissionCall(submission, cache)
  IN IF r.threw
     THEN [stage |-> "done", req |-> Null,
           events |-> <<called>> \o AfterInsert(r, h.onSuccess)]
     ELSE [stage |-> "insert", req |-> r.request,
           events |-> << called, <<"table.insert", r.request>> >>]

\* handleSubmit lines 73-77: the call of createSubmission, up to its await
InsertStep(h, fileUrl) ==
  LET submission == [date |-> h.today, message |-> h.message, file_url |-> fileUrl]
      called == <<"createSubmission", submission, GetCurrentUser(cache)>>
      r == CreateSubmissionCall(submission, cache)
  IN IF r.threw
     THEN [stage |-> "done", req |-> Null,
           events |-> <<called>> \o AfterInsert(r, h.onSuccess)]
     ELSE [stage |-> "insert", req |-> r.request,
           events |-> << called, <<"table.insert", r.request>> >>]

\* the inner catch without its return: the handler goes on to the insert
AfterUploadFallsThrough(h, r) ==
  IF r.threw
  THEN LET s == InsertStep(h, Null)
       IN [s EXCEPT !.events =
             << <<"uploadFile.rejected", r.error>>,
                <<"toast", "File upload failed", r.error.message, "destructive">>,
                <<"setIsSubmitting", FALSE>> >> \o @]
  ELSE LET s == InsertStep(h, r.value.url)
       IN [s EXCEPT !.events = << <<"uploadFile.resolved", r.value>> >> \o @]

\* handleSubmit lines 57-70: what follows the await of uploadFile, whose
\* outcome is r
AfterUpload(h, r) ==
  IF r.threw
  THEN [stage |-> "done", req |-> Null,
        events |-> << <<"uploadFile.rejected", r.error>> >> \o UploadCatch(r.error)]
  ELSE LET s == InsertStep(h, r.value.url)
       IN [s EXCEPT !.events = << <<"uploadFile.resolved", r.value>> >> \o @]

\* handleSubmit lines 52-59: the call of uploadFile, up to its await
UploadStep(h) ==
  LET called == <<"uploadFile", h.fileName>>
      r == UploadFileCall(h.fileName, cache)
  IN IF r.threw
     THEN [AfterUpload(h, r) EXCEPT !.events = <<called>> \o @]
     ELSE [stage |-> "upload", req |-> r.request,
           events |-> << called, <<"storage.upload", r.request>> >>]

\* the value of isSubmitting after the setState calls among events
RECURSIVE AfterSetState(_, _)
AfterSetState(b, events) ==
  IF events = <<>> THEN b
  ELSE AfterSetState(IF Head(events)[1] = "setIsSubmitting" THEN Head(events)[2] ELSE b,
                     Tail(events))

\* a submit button that is never disabled
SubmitEnabledAlways == message # ""

\* the submit button is disabled while isSubmitting (lines 136-140) and
\* the textarea is required (line 117)
SubmitEnabled == ~isSubmitting /\ message # ""

InFlight == {i \in DOMAIN inv : inv[i].stage # "done"}

\* the invocations still running: what is kept of inv by a step that
\* does not continue one of them
Running == SelectSeq(inv, LAMBDA h : h.stage # "done")

\* handleSubmit from the submit event to its first await (or its return),
\* in a render whose onSuccess prop is cb
HandleSubmit(cb) ==
  /\ SubmitEnabled
  /\ started < MaxSubmits
  /\ started' = started + 1
  /\ LET entered == <<"handleSubmit", user, message, file, clock,
                      GetCurrentUser(cache), BagCardinality(table)>>
     IN IF user = Null
        THEN /\ inv' = Append(Running, [stage |-> "done", user |-> user,
                                    onSuccess |-> cb,
                                    message |-> message, file |-> file,
                                    today |-> ISODate(clock), fileName |-> <<>>,
                                    req |-> Null,
                                    log |-> <<entered>> \o NotLoggedIn])
             /\ UNCHANGED isSubmitting
        ELSE LET h == [stage |-> "start", user |-> user, onSuccess |-> cb,
                       message |-> message,
                       file |-> file, today |-> ISODate(clock),
                       fileName |-> IF file = Null THEN <<>>
                                    ELSE FileNameOf(user, clock, file),
                       req |-> Null,
                       log |-> <<entered, SetIsSubmitting(TRUE)>>]
                 s == IF file # Null THEN UploadStep(h) ELSE InsertStep(h, Null)
             IN /\ inv' = Append(Running, [h EXCEPT !.stage = s.stage, !.req = s.req,
                                                !.log = h.log \o s.events])
                /\ isSubmitting' = AfterSetState(TRUE, s.events)
  /\ apiLog' = <<>>
  /\ UNCHANGED <<user, cache, message, file, clock, table, insertedWhile,
                 apiCalls, clientVars>>

\* the awaited uploadFile settles; handleSubmit runs on to its next await
UploadCompletes(i) ==
  /\ i \in DOMAIN inv
  /\ inv[i].stage = "upload"
  /\ \E resp \in UploadResponses(inv[i].req) :
     LET h == inv[i]
         s == AfterUpload(h, UploadFileSettle(h.fileName, resp))
     IN /\ inv' = [inv EXCEPT ![i] = [h EXCEPT !.stage = s.stage, !.req = s.req,
                                      !.log = h.log \o << <<"response", resp>> >>
                                                    \o s.events]]
        /\ isSubmitting' = AfterSetState(isSubmitting, s.events)
  /\ apiLog' = <<>>
  /\ UNCHANGED <<user, cache, message, file, clock, started, table,
                 insertedWhile, apiCalls, clientVars>>

\* the awaited createSubmission settles; handleSubmit runs to its end
InsertCompletes(i) ==
  /\ i \in DOMAIN inv
  /\ inv[i].stage = "insert"
  /\ \E resp \in InsertResponses(inv[i].req) :
     LET h == inv[i]
         events == AfterInsert(CreateSubmissionSettle(resp), h.onSuccess)
     IN /\ inv' = [inv EXCEPT ![i] = [h EXCEPT !.stage = "done", !.req = Null,
                                      !.log = h.log \o << <<"response", resp>> >>
                                                    \o events]]
        /\ isSubmitting' = AfterSetState(isSubmitting, events)
        /\ table' = IF resp.error = Null THEN table (+) SetToBag({h.req}) ELSE table
        /\ insertedWhile' =
             IF resp.error = Null
             THEN insertedWhile \cup {[row |-> h.req,
                                       cached |-> h.log[Len(h.log) - 1][3]]}
             ELSE insertedWhile
  /\ apiLog' = <<>>
  /\ UNCHANGED <<user, cache, message, file, clock, started, apiCalls,
                 clientVars>>

\* the model follows the form until its last submit has ended: the user
\* and the environment act as long as a submit is running or can start
Active == started < MaxSubmits \/ InFlight # {}

\* the textarea's onChange; the textarea is disabled while isSubmitting
SetMessage(m) ==
  /\ Active
  /\ ~isSubmitting
  /\ m \in Messages
  /\ message' = m
  /\ inv' = Running
  /\ apiLog' = <<>>
  /\ UNCHANGED <<user, cache, file, isSubmitting, clock, started, table,
                 insertedWhile, apiCalls, clientVars>>

\* handleFileChange; the input is disabled while isSubmitting
HandleFileChange(files) ==
  /\ Active
  /\ ~isSubmitting
  /\ file' = IF Len(files) > 0 THEN files[1] ELSE file
  /\ inv' = Running
  /\ apiLog' = <<>>
  /\ UNCHANGED <<user, cache, message, isSubmitting, clock, started, table,
                 insertedWhile, apiCalls, clientVars>>

\* ------------------------------------------------------ the environment

\* the auth flow logs a user in: it caches the user and the context
\* provides it to the form
Login(u) ==
  /\ Active
  /\ u \in UserIds
  /\ user' = [id |-> u]
  /\ cache' = UserJson(u)
  /\ inv' = Running
  /\ apiLog' = <<>>
  /\ UNCHANGED <<message, file, isSubmitting, clock, started, table,
                 insertedWhile, apiCalls, clientVars>>

\* the auth flow logs the user out
Logout ==
  /\ Active
  /\ user' = Null
  /\ cache' = NoEntry
  /\ inv' = Running
  /\ apiLog' = <<>>
  /\ UNCHANGED <<message, file, isSubmitting, clock, started, table,
                 insertedWhile, apiCalls, clientVars>>

\* the localStorage entry is written or removed outside the mounted form
\* (another tab, the browser's site-data controls)
StorageChange(c) ==
  /\ Active
  /\ c \in CacheValues
  /\ c # cache
  /\ cache' = c
  /\ inv' = Running
  /\ apiLog' = <<>>
  /\ UNCHANGED <<user, message, file, isSubmitting, clock, started, table,
                 insertedWhile, apiCalls, clientVars>>

Tick ==
  /\ Active
  /\ clock < LastTick
  /\ clock' = clock + 1
  /\ inv' = Running
  /\ apiLog' = <<>>
  /\ UNCHANGED <<user, cache, message, file, isSubmitting, started, table,
                 insertedWhile, apiCalls, clientVars>>

Init ==
  /\ user \in {Null} \cup {[id |-> u] : u \in UserIds}
  /\ cache = IF user = Null THEN NoEntry ELSE UserJson(user.id)
  /\ message = ""
  /\ file = Null
  /\ isSubmitting = FALSE
  /\ clock = FirstTick
  /\ started = 0
  /\ inv = <<>>
  /\ table = EmptyBag
  /\ insertedWhile = {}
  /\ apiCalls = 0
  /\ apiLog = <<>>
  /\ envUrl = Undefined
  /\ client = "none"
  /\ clientCalls = <<>>
  /\ netCalls = 0

Next ==
  \/ \E cb \in OnSuccessValues : HandleSubmit(cb)
  \/ \E i \in 1..MaxSubmits : UploadCompletes(i)
  \/ \E i \in 1..MaxSubmits : InsertCompletes(i)
  \/ \E m \in Messages : SetMessage(m)
  \/ \E files \in {<<>>} \cup {<<[name |-> n]>> : n \in FileNames} :
       HandleFileChange(files)
  \/ \E u \in UserIds : Login(u)
  \/ Logout
  \/ \E c \in CacheValues : StorageChange(c)
  \/ Tick

Spec == Init /\ [][Next]_vars

\* ------------------------------------- direct use of the exported wrapper

\* records a caller other than the form can pass to createSubmission
\* (its parameter is typed any)
ApiSubmissions ==
  { [date |-> 0, message |-> "direct", file_url |-> Null],
    [date |-> 0, message |-> "direct", file_url |-> Null, user_id |-> "u1"],
    [date |-> 0, message |-> "direct", file_url |-> Null, user_id |-> "u2"] }

\* one call of createSubmission by such a caller, from the call to the
\* settling of the promise it returns
ApiCreateSubmission(submission) ==
  /\ apiCalls < MaxApiCalls
  /\ apiCalls' = apiCalls + 1
  /\ LET cu == GetCurrentUser(cache)
         r == CreateSubmissionCall(submission, cache)
     IN IF r.threw
        THEN /\ apiLog' = Append(<<>>, [submission |-> submission, cached |-> cu,
                                          request |-> Null, threw |-> TRUE,
                                          result |-> r.error, inserted |-> FALSE])
             /\ UNCHANGED <<table, insertedWhile>>
        ELSE \E resp \in InsertResponses(r.request) :
               LET st == CreateSubmissionSettle(resp)
               IN /\ apiLog' = Append(<<>>,
                                 [submission |-> submission, cached |-> cu,
                                  request |-> r.request, threw |-> st.threw,
                                  result |-> IF st.threw THEN st.error ELSE st.value,
                                  inserted |-> resp.error = Null])
                  /\ table' = IF resp.error = Null
                              THEN table (+) SetToBag({r.request})
                              ELSE table
                  /\ insertedWhile' =
                       IF resp.error = Null
                       THEN insertedWhile \cup {[row |-> r.request, cached |-> cu]}
                       ELSE insertedWhile
  /\ inv' = Running
  /\ UNCHANGED <<user, cache, message, file, isSubmitting, clock, started,
                 clientVars>>

\* the form with its inputs already entered, next to direct callers
InitApi ==
  /\ user \in {Null} \cup {[id |-> u] : u \in UserIds}
  /\ cache = IF user = Null THEN NoEntry ELSE UserJson(user.id)
  /\ message = "hello"
  /\ file \in {Null} \cup {[name |-> n] : n \in FileNames}
  /\ isSubmitting = FALSE
  /\ clock = FirstTick
  /\ started = 0
  /\ inv = <<>>
  /\ table = EmptyBag
  /\ insertedWhile = {}
  /\ apiCalls = 0
  /\ apiLog = <<>>
  /\ envUrl = Undefined
  /\ client = "none"
  /\ clientCalls = <<>>
  /\ netCalls = 0

NextApi ==
  \/ HandleSubmit([kind |-> "absent"])
  \/ \E i \in 1..MaxSubmits : UploadCompletes(i)
  \/ \E i \in 1..MaxSubmits : InsertCompletes(i)
  \/ \E u \in UserIds : Login(u)
  \/ Logout
  \/ \E c \in CacheValues : StorageChange(c)
  \/ \E submission \in ApiSubmissions : ApiCreateSubmission(submission)

SpecApi == InitApi /\ [][NextApi]_vars

\* ------------------------------------------- the variant client setup

UrlChars == {"a", "1", ":", "/"}

RECURSIVE StringsUpTo(_)
StringsUpTo(n) ==
  IF n = 0 THEN {<<>>}
  ELSE StringsUpTo(n - 1) \cup
       {Append(w, c) : w \in {v \in StringsUpTo(n - 1) : Len(v) = n - 1},
                       c \in UrlChars}

\* values of import.meta.env.VITE_SUPABASE_URL
EnvUrls == {Undefined} \cup {[str |-> w] : w \in StringsUpTo(MaxUrlLen)}

\* 'https://your-project-url.supabase.co'
PlaceholderUrl == [str |-> <<"a", ":", "/", "/", "a">>]

\* import.meta.env.VITE_SUPABASE_URL || placeholder
SupabaseUrl(env) ==
  IF env = Undefined THEN PlaceholderUrl
  ELSE IF env.str = <<>> THEN PlaceholderUrl
  ELSE env

\* new URL(u) does not throw: without a base, u needs a scheme, which is a
\* letter followed by letters and digits, up to a colon
IsValidUrl(u) ==
  \E k \in 2..Len(u.str) :
    /\ u.str[k] = ":"
    /\ u.str[1] = "a"
    /\ \A j \in 1..(k - 1) : u.str[j] \in {"a", "1"}

ConfigError ==
  [data |-> Null, error |-> [message |-> <<"Supabase configuration error">>]]

TableOps == {"from.select", "from.insert", "from.update", "from.delete", "from.eq"}
StubOps == TableOps \cup
           {"storage.from.upload", "storage.from.getPublicUrl", "functions.setAuth"}

\* what each operation of the mock client returns (part_001 lines 18-35)
StubResult(op) ==
  IF op \in TableOps THEN ConfigError
  ELSE IF op = "storage.from.upload" THEN ConfigError
  ELSE IF op = "storage.from.getPublicUrl" THEN [data |-> [publicUrl |-> <<>>]]
  ELSE Undefined

\* a client created without validating the URL
CreateClientUnvalidated(env) == "real"

\* createSupabaseClient (part_001 lines 9-37)
CreateSupabaseClientResult(env) ==
  IF IsValidUrl(SupabaseUrl(env)) THEN "real" ELSE "stub"

\* the operations of the real client that go to the network
NetworkOps == TableOps \cup {"storage.from.upload"}

\* one operation called on the client
ClientCall(kind, op) ==
  IF kind = "stub"
  THEN [op |-> op, result |-> StubResult(op), network |-> FALSE]
  ELSE [op |-> op, result |-> [platform |-> TRUE], network |-> op \in NetworkOps]

\* addUserToRequest (part_001 lines 56-61): the calls it makes on the client
AddUserToRequest(kind, c) ==
  IF GetCurrentUser(c) # Null
  THEN << ClientCall(kind, "functions.setAuth") >>
  ELSE << >>

\* evaluation of the module part_001: the client is created, then
\* addUserToRequest() runs
LoadClientModule ==
  /\ client = "none"
  /\ client' = CreateSupabaseClientResult(envUrl)
  /\ clientCalls' = AddUserToRequest(client', cache)
  /\ UNCHANGED <<formVars, apiCalls, apiLog, envUrl, netCalls>>

\* some code calls an operation of the exported client
CallClient(op) ==
  /\ client # "none"
  /\ Len(clientCalls) < MaxClientCalls
  /\ LET call == ClientCall(client, op)
     IN /\ clientCalls' = Append(clientCalls, call)
        /\ netCalls' = IF call.network THEN netCalls + 1 ELSE netCalls
  /\ UNCHANGED <<formVars, apiCalls, apiLog, envUrl, client>>

InitClient ==
  /\ user = Null
  /\ cache \in CacheValues
  /\ message = ""
  /\ file = Null
  /\ isSubmitting = FALSE
  /\ clock = FirstTick
  /\ started = 0
  /\ inv = <<>>
  /\ table = EmptyBag
  /\ insertedWhile = {}
  /\ apiCalls = 0
  /\ apiLog = <<>>
  /\ envUrl \in EnvUrls
  /\ client = "none"
  /\ clientCalls = <<>>
  /\ netCalls = 0

NextClient ==
  \/ LoadClientModule
  \/ \E op \in StubOps : CallClient(op)

SpecClient == InitClient /\ [][NextClient]_vars

\* ------------------------------------------------------------ properties

\* reading a log
Pos(log, type) == {k \in DOMAIN log : log[k][1] = type}
Count(log, type) == Cardinality(Pos(log, type))
Has(log, type) == Pos(log, type) # {}
First(log, type) == CHOOSE k \in Pos(log, type) : \A j \in Pos(log, type) : k <= j
EntryUser(log) == log[1][2]
EntryMessage(log) == log[1][3]
EntryFile(log) == log[1][4]
EntryClock(log) == log[1][5]
EntryCached(log) == log[1][6]
EntryRows(log) == log[1][7]
Toasts(log) == SelectSeq(log, LAMBDA e : e[1] = "toast")
Navigations(log) == SelectSeq(log, LAMBDA e : e[1] = "navigate")
Ended(h) == h.stage = "done"
IsSuffix(t, w) == Len(t) <= Len(w) /\ SubSeq(w, Len(w) - Len(t) + 1, Len(w)) = t

C2_UploadBeforeInsert ==
  \A i \in DOMAIN inv :
    LET log == inv[i].log
    IN /\ Count(log, "uploadFile") <= 1
       /\ Count(log, "storage.upload") <= 1
       /\ Count(log, "createSubmission") <= 1
       /\ Count(log, "table.insert") <= 1
       /\ (EntryUser(log) # Null /\ EntryFile(log) # Null) =>
            /\ Count(log, "uploadFile") = 1
            /\ Has(log, "createSubmission") =>
                 /\ Has(log, "uploadFile.resolved")
                 /\ First(log, "uploadFile") < First(log, "uploadFile.resolved")
                 /\ First(log, "uploadFile.resolved") < First(log, "createSubmission")
            /\ Has(log, "uploadFile.rejected") => ~Has(log, "createSubmission")
            /\ Has(log, "table.insert") =>
                 /\ Has(log, "storage.upload")
                 /\ \E k \in Pos(log, "response") :
                      /\ First(log, "storage.upload") < k
                      /\ k < First(log, "table.insert")
       /\ (inv[i].stage = "upload") => ~Has(log, "table.insert")

C2_Witness ==
  \E i \in DOMAIN inv :
    /\ Has(inv[i].log, "uploadFile.resolved")
    /\ Has(inv[i].log, "createSubmission.resolved")


\* C3: a submit that set the submitting flag and has terminated leaves the
\* flag at idle: with no submit running isSubmitting is FALSE; after an
\* upload failure no insert was issued and the table has no new row.
C3_FlagBackToIdle ==
  /\ (\A i \in DOMAIN inv : Ended(inv[i])) => isSubmitting = FALSE
  /\ \A i \in DOMAIN inv :
       (Ended(inv[i]) /\ Has(inv[i].log, "uploadFile.rejected")) =>
         /\ ~Has(inv[i].log, "table.insert")
         /\ BagCardinality(table) = EntryRows(inv[i].log)

C3_Witness ==
  \E i \in DOMAIN inv :
    /\ Ended(inv[i])
    /\ Has(inv[i].log, "uploadFile.rejected")
    /\ Has(inv[i].log, "storage.upload")
    /\ isSubmitting = FALSE


\* C4: the row a submit passes to the table insert is exactly
\* {date: the ISO date of the moment the submit began, message: the form's
\* message, file_url: the public URL this submit's upload returned, or
\* null without a file, user_id: the id of the cached current user};
\* without a file no upload is invoked.
C4_InsertedRow ==
  \A i \in DOMAIN inv :
    LET log == inv[i].log
    IN /\ Has(log, "table.insert") =>
            log[First(log, "table.insert")][2] =
              [date |-> ISODate(EntryClock(log)),
               message |-> EntryMessage(log),
               file_url |-> IF EntryFile(log) = Null THEN Null
                            ELSE log[First(log, "uploadFile.resolved")][2].url,
               user_id |-> log[First(log, "createSubmission")][3].id]
       /\ (Has(log, "table.insert") /\ EntryFile(log) # Null) =>
            /\ Has(log, "uploadFile.resolved")
            /\ log[First(log, "uploadFile.resolved")][2].url =
                 PublicUrl(FileNameOf(EntryUser(log), EntryClock(log), EntryFile(log)))
       /\ EntryFile(log) = Null =>
            ~Has(log, "uploadFile") /\ ~Has(log, "storage.upload")

C4_Witness ==
  \E i \in DOMAIN inv :
    /\ Has(inv[i].log, "table.insert")
    /\ EntryFile(inv[i].log) # Null
    /\ ISODate(clock) # ISODate(EntryClock(inv[i].log))


\* C6: at most one submit of the form is in flight at a time, at most one
\* platform call is outstanding, and isSubmitting is TRUE for as long as a
\* submit is in flight.
C6_OneSubmitInFlight ==
  /\ Cardinality(InFlight) <= 1
  /\ InFlight # {} => isSubmitting = TRUE

C6_Witness ==
  /\ started = 2
  /\ InFlight # {}
  /\ BagCardinality(table) = 1

\* C5: every row of the table was issued by a createSubmission call that
\* found a cached current user, and carries that user's id as user_id,
\* whatever user_id the record passed to createSubmission had; a call of
\* createSubmission without a cached user throws 'No user found' and
\* issues no insert.
C5_RowsCarryCachedUser ==
  /\ BagToSet(table) = {p.row : p \in insertedWhile}
  /\ \A p \in insertedWhile :
       /\ p.cached # Null
       /\ p.row.user_id = p.cached.id
  /\ \A k \in DOMAIN apiLog :
       /\ apiLog[k].cached = Null =>
            /\ apiLog[k].threw
            /\ apiLog[k].result = Err(<<"No user found">>)
            /\ apiLog[k].request = Null
            /\ ~apiLog[k].inserted
       /\ apiLog[k].cached # Null =>
            apiLog[k].request.user_id = apiLog[k].cached.id
  /\ \A i \in DOMAIN inv :
       LET log == inv[i].log
       IN (Has(log, "createSubmission") /\ log[First(log, "createSubmission")][3] = Null) =>
            /\ ~Has(log, "table.insert")
            /\ Has(log, "createSubmission.rejected")
            /\ log[First(log, "createSubmission.rejected")][2] = Err(<<"No user found">>)

C5_Witness ==
  \E k \in DOMAIN apiLog :
    /\ apiLog[k].inserted
    /\ "user_id" \in DOMAIN apiLog[k].submission
    /\ apiLog[k].submission.user_id # apiLog[k].cached.id
    /\ BagIn(apiLog[k].request, table)

\* C7: when the upload or the insert of a submit fails, a destructive
\* notification whose description is the thrown error's message (which
\* ends with the platform's error message when the platform reported one)
\* is shown, nothing navigates, onSuccess is not called, and the step that
\* ends the submit leaves the form's message and file as they were when
\* the submit began.
JustEnded(i) ==
  /\ i \in DOMAIN inv'
  /\ inv'[i].stage = "done"
  /\ IF started' # started THEN i = Len(inv')
     ELSE i \in DOMAIN inv /\ inv[i].stage # "done"

FailureOf(log) ==
  IF Has(log, "uploadFile.rejected") THEN log[First(log, "uploadFile.rejected")][2]
  ELSE log[First(log, "createSubmission.rejected")][2]

C7_FailureNotifiesAndKeepsForm ==
  [][ \A i \in 1..MaxSubmits :
        LET log == inv'[i].log
        IN (JustEnded(i) /\ (Has(log, "uploadFile.rejected")
                             \/ Has(log, "createSubmission.rejected"))) =>
             /\ \E k \in DOMAIN Toasts(log) :
                  /\ Toasts(log)[k][3] = FailureOf(log).message
                  /\ Toasts(log)[k][4] = "destructive"
                  /\ \A r \in Pos(log, "response") :
                       log[r][2].error # Null =>
                         IsSuffix(log[r][2].error.message, Toasts(log)[k][3])
             /\ Navigations(log) = << >>
             /\ ~Has(log, "onSuccess")
             /\ message' = message /\ message' = EntryMessage(log)
             /\ file' = file /\ file' = EntryFile(log) ]_vars

C7_Witness ==
  \E i \in DOMAIN inv :
    /\ Ended(inv[i])
    /\ Has(inv[i].log, "createSubmission.rejected")
    /\ \E r \in Pos(inv[i].log, "response") : inv[i].log[r][2].error # Null
    /\ message = EntryMessage(inv[i].log)

\* C8 as stated: in a submit whose insert succeeds the success notification
\* is shown, then onSuccess (if provided) is called, then the navigation
\* to "/" happens, in that order and each once; none of the three occurs in
\* a submit whose insert has not succeeded.
SuccessToast ==
  Toast("Submission successful",
        <<"Your solution has been submitted successfully.">>, "default")

Visible(log) ==
  SelectSeq(log, LAMBDA e : e[1] \in {"toast", "onSuccess", "navigate"})

C8_SuccessSequence ==
  \A i \in DOMAIN inv :
    LET log == inv[i].log
    IN /\ (Ended(inv[i]) /\ Has(log, "createSubmission.resolved")) =>
            Visible(log) =
              <<SuccessToast>>
              \o (IF inv[i].onSuccess.kind = "absent" THEN << >> ELSE << <<"onSuccess">> >>)
              \o << Navigate("/") >>
       /\ ~Has(log, "createSubmission.resolved") =>
            \A k \in DOMAIN Visible(log) :
              Visible(log)[k] \notin {SuccessToast, <<"onSuccess">>, Navigate("/")}

\* C10 as stated: every terminated handleSubmit shows exactly one
\* notification: 'Not logged in' without a form user, 'File upload failed'
\* when the upload rejects, 'Submission failed' when the insert or a later
\* step throws, 'Submission successful' otherwise.
C10_ExactlyOneNotification ==
  \A i \in DOMAIN inv :
    LET log == inv[i].log
    IN Ended(inv[i]) =>
         /\ Len(Toasts(log)) = 1
         /\ Toasts(log)[1][2] =
              IF EntryUser(log) = Null THEN "Not logged in"
              ELSE IF Has(log, "uploadFile.rejected") THEN "File upload failed"
              ELSE IF Has(log, "createSubmission.rejected") THEN "Submission failed"
              ELSE IF Has(log, "onSuccess") /\ inv[i].onSuccess.kind = "throws"
                   THEN "Submission failed"
              ELSE "Submission successful"

\* C9 as stated: with an invalid connection URL the client is a stub, and
\* every operation of the stub returns the configuration-error response
\* and makes no network call.
C9_StubAlwaysConfigError ==
  /\ (client # "none" /\ ~IsValidUrl(SupabaseUrl(envUrl))) => client = "stub"
  /\ client = "stub" =>
       /\ netCalls = 0
       /\ \A k \in DOMAIN clientCalls : clientCalls[k].result = ConfigError

\* C9 amended: with an invalid connection URL the client is a stub that
\* makes no network call; its table operations (select, insert, update,
\* delete, eq) and its storage upload return {data: null, error: {message:
\* 'Supabase configuration error'}}, its getPublicUrl returns
\* {data: {publicUrl: ''}} and its functions.setAuth returns nothing.
C9_StubResponses ==
  /\ (client # "none" /\ ~IsValidUrl(SupabaseUrl(envUrl))) => client = "stub"
  /\ client = "stub" =>
       /\ netCalls = 0
       /\ \A k \in DOMAIN clientCalls :
            /\ ~clientCalls[k].network
            /\ clientCalls[k].result =
                 IF clientCalls[k].op \in TableOps \cup {"storage.from.upload"}
                 THEN ConfigError
                 ELSE IF clientCalls[k].op = "storage.from.getPublicUrl"
                 THEN [data |-> [publicUrl |-> << >>]]
                 ELSE Undefined

C9_Witness ==
  /\ client = "stub"
  /\ envUrl # Undefined
  /\ \E k \in DOMAIN clientCalls : clientCalls[k].op = "from.insert"
  /\ \E k \in DOMAIN clientCalls : clientCalls[k].op = "storage.from.getPublicUrl"

====
